---------------------------- MODULE Spec2Model ----------------------------
(***************************************************************************)
(* State-machine model of the one-word-story bot (src/src/main.rs).        *)
(*                                                                         *)
(* Text is a sequence of one-character strings, so that prefix tests,      *)
(* whitespace splitting, case folding, substring replacement and integer   *)
(* parsing are computed character by character as the Rust code does.      *)
(* All characters used are ASCII, for which str::len (bytes) equals the    *)
(* number of characters.                                                   *)
(***************************************************************************)
EXTENDS Integers, Sequences, FiniteSets, TLC

VARIABLES
    config,     \* the Config inside Arc<RwLock<Config>> (ConfigContainer)
    cfgLock,    \* state of that RwLock: [writer, readers]
    dataLock,   \* state of ctx.data's RwLock<TypeMap>: [writer]
    censor,     \* the Censor currently stored under CensorContainer
    file,       \* contents of the CONFIG_FILE, or NoFile
    envSet,     \* whether the CONFIG_FILE environment variable is set
    pc,         \* per handler: position in message / run_command / set_config / parse_message
    msg,        \* per handler: the Message being handled
    cmd,        \* per handler: the parsed Command (run_command's argument)
    chan,       \* per handler: parse_message's local channel_id
    cens,       \* per handler: parse_message's Censor obtained from the TypeMap
    seen,       \* per handler, history: its update's position in log, its save's outcome
    requests,   \* what the step just taken asked of the gateway: replies, deletes, stories
    log,        \* history: the startup Config, then each update applied, in order
    acked,      \* history: positions of log whose set_config has returned
    published,  \* history: the position of log the stored Censor was built at
    events,     \* number of message events delivered so far
    cmdIn,      \* input of parse_command under SpecCmd
    cmdOut,     \* its result
    modIn,      \* input of is_valid_message under SpecMod
    modOut,     \* its result
    storyIn,    \* input of generate_story under SpecStory: the channel's history
    storyOut    \* its result: the embeds it sent

coreVars == <<config, cfgLock, dataLock, censor, file, envSet, pc, msg, cmd,
              chan, cens, seen, requests, log, acked, published,
              events>>
cmdVars  == <<cmdIn, cmdOut>>
modVars  == <<modIn, modOut>>
storyVars == <<storyIn, storyOut>>
vars     == <<coreVars, cmdVars, modVars, storyVars>>

---------------------------------------------------------------------------
(* Characters and strings                                                  *)

UpperChars == <<"A","B","C","D","E","F","G","H","I","J","K","L","M",
                "N","O","P","Q","R","S","T","U","V","W","X","Y","Z">>
LowerChars == <<"a","b","c","d","e","f","g","h","i","j","k","l","m",
                "n","o","p","q","r","s","t","u","v","w","x","y","z">>
DigitChars == <<"0","1","2","3","4","5","6","7","8","9">>

Range(s) == { s[i] : i \in DOMAIN s }

IsWhitespace(c)   == c \in {" ", "\t", "\n"}
IsDigit(c)        == c \in Range(DigitChars)
IsAlphanumeric(c) == c \in Range(UpperChars) \cup Range(LowerChars) \cup Range(DigitChars)

\* char::to_lowercase on the ASCII range
LowerChar(c) ==
    IF c \in Range(UpperChars)
    THEN LowerChars[CHOOSE i \in DOMAIN UpperChars : UpperChars[i] = c]
    ELSE c

\* str::to_lowercase
to_lowercase(s) == [i \in DOMAIN s |-> LowerChar(s[i])]

\* str::starts_with
starts_with(s, p) == Len(s) >= Len(p) /\ SubSeq(s, 1, Len(p)) = p

\* p occurs in s at position i
OccursAt(s, p, i) == i + Len(p) - 1 <= Len(s) /\ SubSeq(s, i, i + Len(p) - 1) = p

\* str::contains, via str::match_indices being non-empty
Contains(s, p) == \E i \in 1..(Len(s) + 1) : OccursAt(s, p, i)

\* str::split_whitespace: maximal runs of non-whitespace characters, in order
RECURSIVE SplitFrom(_, _, _)
SplitFrom(s, i, cur) ==
    IF i > Len(s)
    THEN IF cur = <<>> THEN <<>> ELSE <<cur>>
    ELSE IF IsWhitespace(s[i])
         THEN (IF cur = <<>> THEN <<>> ELSE <<cur>>) \o SplitFrom(s, i + 1, <<>>)
         ELSE SplitFrom(s, i + 1, Append(cur, s[i]))

split_whitespace(s) == SplitFrom(s, 1, <<>>)

\* str::replace(pat, ""): non-overlapping matches removed, scanning left to right
RECURSIVE RemoveFrom(_, _, _)
RemoveFrom(s, p, i) ==
    IF i > Len(s) THEN <<>>
    ELSE IF OccursAt(s, p, i) THEN RemoveFrom(s, p, i + Len(p))
         ELSE <<s[i]>> \o RemoveFrom(s, p, i + 1)

replace_with_empty(s, p) == RemoveFrom(s, p, 1)

---------------------------------------------------------------------------
(* u64 parsing.  A u64 value is represented by its canonical decimal       *)
(* numeral (no sign, no leading zeros), which keeps the full 64-bit range. *)

U64Max == <<"1","8","4","4","6","7","4","4","0","7","3","7","0","9","5","5","1","6","1","5">>

DigitVal(c) == (CHOOSE i \in DOMAIN DigitChars : DigitChars[i] = c) - 1

RECURSIVE StripZeros(_)
StripZeros(d) == IF Len(d) > 1 /\ Head(d) = "0" THEN StripZeros(Tail(d)) ELSE d

\* a < b or a = b, for canonical numerals of equal length
RECURSIVE NumeralLeq(_, _)
NumeralLeq(a, b) ==
    IF a = <<>> THEN TRUE
    ELSE IF DigitVal(Head(a)) < DigitVal(Head(b)) THEN TRUE
    ELSE IF DigitVal(Head(a)) > DigitVal(Head(b)) THEN FALSE
    ELSE NumeralLeq(Tail(a), Tail(b))

FitsU64(d) == Len(d) < Len(U64Max) \/ (Len(d) = Len(U64Max) /\ NumeralLeq(d, U64Max))

ParseErr == [ok |-> FALSE, val |-> <<>>]

\* str::parse::<u64>: empty is an error; one leading "+" is accepted, "-" is
\* not; every remaining character must be a decimal digit and there must be at
\* least one; a value above u64::MAX is an error.
parse_u64(s) ==
    LET digits == IF s # <<>> /\ Head(s) = "+" THEN Tail(s) ELSE s
    IN  IF digits = <<>> \/ \E i \in DOMAIN digits : ~IsDigit(digits[i])
        THEN ParseErr
        ELSE IF FitsU64(StripZeros(digits))
             THEN [ok |-> TRUE, val |-> StripZeros(digits)]
             ELSE ParseErr

---------------------------------------------------------------------------
(* Command and parse_command (main.rs 158-193)                             *)

OneWordPrefix == <<"o","n","e","-","w","o","r","d">>
KwSetChannel  == <<"s","e","t","-","c","h","a","n","n","e","l">>
KwBan         == <<"b","a","n">>
KwUnban       == <<"u","n","b","a","n">>
MentionOpen   == <<"<","#">>
MentionClose  == <<">">>

UsageError     == "Usage: one-word <set-channel|ban|unban> <arg>"
InvalidChannel == "Invalid channel"
InvalidCommand == "Invalid command"

\* enum Command; arg is the ChannelId numeral or the word
SetChannel(id)  == [op |-> "SetChannel", arg |-> id]
BanWord(word)   == [op |-> "BanWord",    arg |-> word]
UnbanWord(word) == [op |-> "UnbanWord",  arg |-> word]
NoCommand       == [op |-> "none",       arg |-> <<>>]

\* Option<Result<Command, &'static str>>
None        == [tag |-> "None", cmd |-> NoCommand, err |-> ""]
SomeOk(c)   == [tag |-> "Ok",   cmd |-> c,         err |-> ""]
SomeErr(e)  == [tag |-> "Err",  cmd |-> NoCommand, err |-> e]

\* every text taken for an ordinary message
parse_command_none(m) == None

\* the sub-command compared as typed
KeywordOfCaseSensitive(words) == words[2]

\* words[1].to_lowercase()
KeywordOf(words) == to_lowercase(words[2])

\* arg.replace("<#", "").replace('>', "")
StripMention(arg) == replace_with_empty(replace_with_empty(arg, MentionOpen), MentionClose)

\* the "set-channel" arm
SetChannelArm(arg) ==
    LET channel_id == parse_u64(StripMention(arg))
    IN  IF channel_id.ok THEN SomeOk(SetChannel(channel_id.val))
        ELSE SomeErr(InvalidChannel)

parse_command(m) ==
    IF ~starts_with(m.content, OneWordPrefix) THEN None
    ELSE LET words == split_whitespace(m.content)
         IN  IF Len(words) < 3 THEN SomeErr(UsageError)
             ELSE LET arg == words[3]
                      kw  == KeywordOf(words)
                  IN  IF kw = KwSetChannel THEN SetChannelArm(arg)
                      ELSE IF kw = KwBan THEN SomeOk(BanWord(arg))
                      ELSE IF kw = KwUnban THEN SomeOk(UnbanWord(arg))
                      ELSE SomeErr(InvalidCommand)

---------------------------------------------------------------------------
(* censor::Censor as used through Censor::Custom and Censor::check         *)

\* representative of the library's built-in Censor::Standard word list
StandardWords == { <<"c","r","a","p">> }

\* Censor::Custom(set); a sum with Censor::Standard would set standard
CensorCustom(words) == [standard |-> FALSE, custom |-> words]

\* the word list a Censor matches against
CensorSet(c) == (IF c.standard THEN StandardWords ELSE {}) \cup c.custom

RECURSIVE RemoveNonAlphanumeric(_)
RemoveNonAlphanumeric(s) ==
    IF s = <<>> THEN <<>>
    ELSE (IF IsAlphanumeric(Head(s)) THEN <<Head(s)>> ELSE <<>>)
         \o RemoveNonAlphanumeric(Tail(s))

RECURSIVE RemoveWhitespace(_)
RemoveWhitespace(s) ==
    IF s = <<>> THEN <<>>
    ELSE (IF IsWhitespace(Head(s)) THEN <<>> ELSE <<Head(s)>>)
         \o RemoveWhitespace(Tail(s))

\* runs of one repeated character collapsed to a single character
RECURSIVE DedupString(_)
DedupString(s) ==
    IF Len(s) <= 1 THEN s
    ELSE IF s[1] = s[2] THEN DedupString(Tail(s))
         ELSE <<s[1]>> \o DedupString(Tail(s))

\* the text is lower-cased before matching; the words are used as stored
CensorNormalize(text) == to_lowercase(text)

\* Censor::check: some word of the list occurs in the normalised text with
\* non-alphanumerics removed or with whitespace removed, or in either with
\* repeated characters collapsed
Censor_check(c, text) ==
    LET lowercase == CensorNormalize(text)
        forms == { RemoveNonAlphanumeric(lowercase), RemoveWhitespace(lowercase) }
    IN  \E w \in CensorSet(c) : \E f \in forms :
            Contains(f, w) \/ Contains(DedupString(f), w)

---------------------------------------------------------------------------
(* is_valid_message (main.rs 81-97)                                        *)

TooManyWords(words) == Len(words) > 2

TwoLongWords(words) ==
    Len(words) = 2 /\ ~(Len(words[1]) <= 2 \/ Len(words[2]) <= 2)

is_valid_message(text, c) ==
    LET words == split_whitespace(text)
    IN  IF TooManyWords(words) THEN FALSE
        ELSE IF TwoLongWords(words) THEN FALSE
        ELSE IF Censor_check(c, text) THEN FALSE
        ELSE TRUE

---------------------------------------------------------------------------
(* Shared state: Config, the TypeMap entries, the two RwLocks, the file    *)

\* the event-handler tasks that may be in flight at once
Handlers == {1, 2}

MaxEvents == 3      \* message events delivered in one run

Chan0 == <<"0">>    \* ChannelId(0), the default
Chan1 == <<"1">>
WordFoo == <<"f","o","o">>

\* struct Config
Config(id, words) == [channel_id |-> id, banned_words |-> words]

\* main: the default when read_config() is None
DefaultConfig == Config(Chan0, {})

\* contents of the CONFIG_FILE
FileAbsent     == [state |-> "absent",  cfg |-> DefaultConfig]
FileHolding(c) == [state |-> "valid",   cfg |-> c]

StoredConfig == Config(Chan1, {WordFoo})

\* read_config: Some(config) only if CONFIG_FILE is set, readable and parses
read_config(env, f) ==
    IF env /\ f.state = "valid" THEN [some |-> TRUE, cfg |-> f.cfg]
    ELSE [some |-> FALSE, cfg |-> DefaultConfig]

\* main: read_config().unwrap_or_else(default)
StartupConfig(env, f) ==
    IF read_config(env, f).some THEN read_config(env, f).cfg ELSE DefaultConfig

\* the Censor built without the word list
BuildCensorEmpty(cfg) == CensorCustom({})

\* the Censor built as Censor::Standard + Censor::Custom(..)
BuildCensorWithStandard(cfg) == [standard |-> TRUE, custom |-> cfg.banned_words]

\* censor::Censor::Custom(config.banned_words.clone())
BuildCensor(cfg) == CensorCustom(cfg.banned_words)

\* the update applied to a copy that is then dropped
ApplyUpdateOnClone(cfg, c) == cfg

\* the update closures of run_command
ApplyUpdate(cfg, c) ==
    IF c.op = "SetChannel" THEN [cfg EXCEPT !.channel_id = c.arg]
    ELSE IF c.op = "BanWord" THEN [cfg EXCEPT !.banned_words = @ \cup {c.arg}]
    ELSE IF c.op = "UnbanWord" THEN [cfg EXCEPT !.banned_words = @ \ {c.arg}]
    ELSE cfg

\* tokio::sync::RwLock: any number of readers, or one writer
Unlocked        == [writers |-> {}, readers |-> {}]
CanRead(l)      == l.writers = {}
CanWriteIgnoringReaders(l) == l.writers = {}
CanWrite(l)     == l.writers = {} /\ l.readers = {}
AcquireRead(l, h)  == [l EXCEPT !.readers = @ \cup {h}]
ReleaseRead(l, h)  == [l EXCEPT !.readers = @ \ {h}]
AcquireWrite(l, h) == [l EXCEPT !.writers = @ \cup {h}]
\* a write guard that is never dropped
ReleaseWriteLeaked(l, h) == l
ReleaseWrite(l, h) == [l EXCEPT !.writers = @ \ {h}]

\* set_config's match on env::var("CONFIG_FILE") and fs::write: the new file
\* contents.  written is whether fs::write succeeds.
SaveConfig(env, written, cfg, f) ==
    IF env /\ written THEN FileHolding(cfg) ELSE f

SaveOutcome(env, written) ==
    IF ~env THEN "unset" ELSE IF written THEN "ok" ELSE "failed"

\* a failed lookup taken for permission
msg_member_has_perm_lenient(m) == m.perm # "member"

\* msg_member_has_perm: false when the member or permission lookup fails
msg_member_has_perm(m) == m.perm = "admin"

RejectReply == "Only admins are allowed to update settings."

\* the save's failure reported to the user
CommandReplyPropagating(outcome) ==
    IF outcome = "ok" THEN "Settings updated" ELSE "Error writing config"

\* run_command's reply after set_config, whatever the save did
CommandReply(outcome) == "Settings updated"

---------------------------------------------------------------------------
(* Messages delivered by the gateway                                       *)

TextBanFoo   == <<"o","n","e","-","w","o","r","d"," ","b","a","n"," ","f","o","o">>
TextUnbanFoo == <<"o","n","e","-","w","o","r","d"," ","u","n","b","a","n"," ","f","o","o">>
TextSetChan1 == <<"o","n","e","-","w","o","r","d"," ","s","e","t","-","c","h","a","n","n","e","l"," ","<","#","1",">">>
TextUsage    == <<"o","n","e","-","w","o","r","d"," ","b","a","n">>
TextFoo      == <<"f","o","o">>
TextDot      == <<".">>
TextTwoLong  == <<"a","l","p","h","a"," ","b","e","t","a">>

CommandTexts  == {TextBanFoo, TextUnbanFoo, TextSetChan1, TextUsage}
OrdinaryTexts == {TextFoo, TextDot, TextTwoLong}
Perms         == {"admin", "member", "lookup_failed"}

Message(bot, perm, ch, text) ==
    [bot |-> bot, perm |-> perm, channel_id |-> ch, content |-> text]

NoMessage == Message(FALSE, "member", Chan0, <<>>)

\* the events the gateway may deliver
Inbound ==
    { Message(FALSE, "admin", Chan0, t) : t \in CommandTexts }
    \cup { Message(FALSE, p, Chan0, TextBanFoo) : p \in Perms }
    \cup { Message(FALSE, "member", c, TextFoo) : c \in {Chan0, Chan1} }
    \cup { Message(FALSE, "member", Chan0, t) : t \in {TextDot, TextTwoLong} }
    \cup { Message(FALSE, "member", Chan1, TextDot) }
    \cup { Message(TRUE, "admin", Chan0, TextBanFoo) }

---------------------------------------------------------------------------
(* Handlers: Handler::message, run_command, set_config, parse_message      *)

NoCensor == CensorCustom({})

\* history kept per handler
NoSeen == [pos |-> 0, outcome |-> "none"]

LogEntry(c, cfg) == [cmd |-> c, cfg |-> cfg]

\* msg.reply(text), msg.delete(), generate_story(msg); save is history: the
\* outcome of the save that preceded the reply
Reply(m, text, outcome) == [kind |-> "reply",  to |-> m, text |-> text, save |-> outcome]
Delete(m)               == [kind |-> "delete", to |-> m, text |-> "",   save |-> "none"]
Story(m)                == [kind |-> "story",  to |-> m, text |-> "",   save |-> "none"]

InitCore ==
    /\ envSet \in BOOLEAN
    /\ file \in {FileAbsent, FileHolding(StoredConfig)}
    /\ (~envSet => file = FileAbsent)
    /\ config = StartupConfig(envSet, file)
    /\ censor = BuildCensor(StartupConfig(envSet, file))
    /\ cfgLock = Unlocked
    /\ dataLock = Unlocked
    /\ pc = [h \in Handlers |-> "idle"]
    /\ msg = [h \in Handlers |-> NoMessage]
    /\ cmd = [h \in Handlers |-> NoCommand]
    /\ chan = [h \in Handlers |-> Chan0]
    /\ cens = [h \in Handlers |-> NoCensor]
    /\ seen = [h \in Handlers |-> NoSeen]
    /\ requests = {}
    /\ log = <<LogEntry(NoCommand, StartupConfig(envSet, file))>>
    /\ acked = {1}
    /\ published = 1
    /\ events = 0

\* the handler's future completes: its locals are dropped
Return(h) ==
    /\ pc' = [pc EXCEPT ![h] = "idle"]
    /\ msg' = [msg EXCEPT ![h] = NoMessage]
    /\ cmd' = [cmd EXCEPT ![h] = NoCommand]
    /\ chan' = [chan EXCEPT ![h] = Chan0]
    /\ cens' = [cens EXCEPT ![h] = NoCensor]
    /\ seen' = [seen EXCEPT ![h] = NoSeen]

\* Handler::message (25-45) up to its first use of shared state: the bot
\* filter, parse_command, the error reply, run_command's permission check
\* (195-204).  The event is taken by the first free task; the tasks are
\* interchangeable.
Receive(h) ==
    /\ pc[h] = "idle"
    /\ \A g \in Handlers : pc[g] = "idle" => h <= g
    /\ events < MaxEvents
    /\ \E m \in Inbound :
        /\ events' = events + 1
        /\ IF m.bot
           THEN requests' = {} /\ UNCHANGED <<pc, msg, cmd>>
           ELSE LET r == parse_command(m)
                IN  CASE r.tag = "Ok" /\ msg_member_has_perm(m) ->
                           /\ pc' = [pc EXCEPT ![h] = "sc_get"]
                           /\ msg' = [msg EXCEPT ![h] = m]
                           /\ cmd' = [cmd EXCEPT ![h] = r.cmd]
                           /\ requests' = {}
                      [] r.tag = "Ok" /\ ~msg_member_has_perm(m) ->
                           /\ requests' = {Reply(m, RejectReply, "none")}
                           /\ UNCHANGED <<pc, msg, cmd>>
                      [] r.tag = "Err" ->
                           /\ requests' = {Reply(m, r.err, "none")}
                           /\ UNCHANGED <<pc, msg, cmd>>
                      [] OTHER ->
                           /\ pc' = [pc EXCEPT ![h] = "pm_get"]
                           /\ msg' = [msg EXCEPT ![h] = m]
                           /\ requests' = {}
                           /\ UNCHANGED cmd
    /\ UNCHANGED <<config, cfgLock, dataLock, censor, file, envSet, chan, cens,
                   seen, log, acked, published>>
    /\ UNCHANGED <<cmdVars, modVars, storyVars>>

\* set_config (257-262): clone the ConfigContainer Arc under ctx.data.read()
ScGet(h) ==
    /\ pc[h] = "sc_get"
    /\ CanRead(dataLock)
    /\ requests' = {}
    /\ pc' = [pc EXCEPT ![h] = "sc_write"]
    /\ UNCHANGED <<config, cfgLock, dataLock, censor, file, envSet, msg, cmd,
                   chan, cens, seen, log, acked, published, events>>
    /\ UNCHANGED <<cmdVars, modVars, storyVars>>

\* set_config (264-265): lock.write().await, then update(&mut config)
ScWrite(h) ==
    /\ pc[h] = "sc_write"
    /\ CanWrite(cfgLock)
    /\ cfgLock' = AcquireWrite(cfgLock, h)
    /\ config' = ApplyUpdate(config, cmd[h])
    /\ log' = Append(log, LogEntry(cmd[h], config'))
    /\ seen' = [seen EXCEPT ![h].pos = Len(log) + 1]
    /\ requests' = {}
    /\ pc' = [pc EXCEPT ![h] = "sc_data"]
    /\ UNCHANGED <<dataLock, censor, file, envSet, msg, cmd, chan, cens,
                   acked, published, events>>
    /\ UNCHANGED <<cmdVars, modVars, storyVars>>

\* the data lock taken without inserting a rebuilt Censor
ScDataWithoutInsert(h) ==
    /\ pc[h] = "sc_data"
    /\ CanWrite(dataLock)
    /\ dataLock' = AcquireWrite(dataLock, h)
    /\ requests' = {}
    /\ pc' = [pc EXCEPT ![h] = "sc_save"]
    /\ UNCHANGED <<config, cfgLock, censor, published, file, envSet, msg, cmd,
                   chan, cens, seen, log, acked, events>>
    /\ UNCHANGED <<cmdVars, modVars, storyVars>>

\* set_config (267-269): ctx.data.write().await, build the Censor, insert it
ScData(h) ==
    /\ pc[h] = "sc_data"
    /\ CanWrite(dataLock)
    /\ dataLock' = AcquireWrite(dataLock, h)
    /\ censor' = BuildCensor(config)
    /\ published' = seen[h].pos
    /\ requests' = {}
    /\ pc' = [pc EXCEPT ![h] = "sc_save"]
    /\ UNCHANGED <<config, cfgLock, file, envSet, msg, cmd, chan, cens, seen,
                   log, acked, events>>
    /\ UNCHANGED <<cmdVars, modVars, storyVars>>

\* set_config (271-283): the save, with both write guards still held; both
\* are dropped at the end of the block and set_config returns
ScSave(h) ==
    /\ pc[h] = "sc_save"
    /\ \E written \in BOOLEAN :
        /\ file' = SaveConfig(envSet, written, config, file)
        /\ seen' = [seen EXCEPT ![h].outcome = SaveOutcome(envSet, written)]
    /\ dataLock' = ReleaseWrite(dataLock, h)
    /\ cfgLock' = ReleaseWrite(cfgLock, h)
    /\ acked' = acked \cup {seen[h].pos}
    /\ requests' = {}
    /\ pc' = [pc EXCEPT ![h] = "sc_reply"]
    /\ UNCHANGED <<config, censor, envSet, msg, cmd, chan, cens, log, published,
                   events>>
    /\ UNCHANGED <<cmdVars, modVars, storyVars>>

\* run_command (227-229): the acknowledgement
ScReply(h) ==
    /\ pc[h] = "sc_reply"
    /\ requests' =
           {Reply(msg[h], CommandReply(seen[h].outcome), seen[h].outcome)}
    /\ Return(h)
    /\ UNCHANGED <<config, cfgLock, dataLock, censor, file, envSet, log, acked,
                   published, events>>
    /\ UNCHANGED <<cmdVars, modVars, storyVars>>

\* parse_message (49-54): clone the ConfigContainer Arc under ctx.data.read()
PmGet(h) ==
    /\ pc[h] = "pm_get"
    /\ CanRead(dataLock)
    /\ requests' = {}
    /\ pc' = [pc EXCEPT ![h] = "pm_rlock"]
    /\ UNCHANGED <<config, cfgLock, dataLock, censor, file, envSet, msg, cmd,
                   chan, cens, seen, log, acked, published, events>>
    /\ UNCHANGED <<cmdVars, modVars, storyVars>>

\* parse_message (55): lock.read().await
PmRlock(h) ==
    /\ pc[h] = "pm_rlock"
    /\ CanRead(cfgLock)
    /\ cfgLock' = AcquireRead(cfgLock, h)
    /\ requests' = {}
    /\ pc' = [pc EXCEPT ![h] = "pm_read"]
    /\ UNCHANGED <<config, dataLock, censor, file, envSet, msg, cmd, chan,
                   cens, seen, log, acked, published, events>>
    /\ UNCHANGED <<cmdVars, modVars, storyVars>>

\* parse_message (55): copy channel_id, drop the read guard
PmRead(h) ==
    /\ pc[h] = "pm_read"
    /\ chan' = [chan EXCEPT ![h] = config.channel_id]
    /\ cfgLock' = ReleaseRead(cfgLock, h)
    /\ requests' = {}
    /\ pc' = [pc EXCEPT ![h] = "pm_cmp"]
    /\ UNCHANGED <<config, dataLock, censor, file, envSet, msg, cmd, cens,
                   seen, log, acked, published, events>>
    /\ UNCHANGED <<cmdVars, modVars, storyVars>>

\* a channel test that lets every channel through
other_channel_never(m, channel_id) == FALSE

\* if msg.channel_id != channel_id { return; }
other_channel(m, channel_id) == m.channel_id # channel_id

\* parse_message (57-64): the channel test and the "." trigger
PmCmp(h) ==
    /\ pc[h] = "pm_cmp"
    /\ IF other_channel(msg[h], chan[h])
       THEN Return(h) /\ requests' = {}
       ELSE IF msg[h].content = TextDot
            THEN Return(h) /\ requests' = {Story(msg[h])}
            ELSE /\ pc' = [pc EXCEPT ![h] = "pm_lookup"]
                 /\ requests' = {}
                 /\ UNCHANGED <<msg, cmd, chan, cens, seen>>
    /\ UNCHANGED <<config, cfgLock, dataLock, censor, file, envSet, log, acked,
                   published, events>>
    /\ UNCHANGED <<cmdVars, modVars, storyVars>>

\* parse_message (66-71): clone the CensorContainer Arc under ctx.data.read()
PmLookup(h) ==
    /\ pc[h] = "pm_lookup"
    /\ CanRead(dataLock)
    /\ cens' = [cens EXCEPT ![h] = censor]
    /\ requests' = {}
    /\ pc' = [pc EXCEPT ![h] = "pm_check"]
    /\ UNCHANGED <<config, cfgLock, dataLock, censor, file, envSet, msg, cmd,
                   chan, seen, log, acked, published, events>>
    /\ UNCHANGED <<cmdVars, modVars, storyVars>>

\* parse_message (72-78): is_valid_message against the Censor, delete if invalid
PmCheck(h) ==
    /\ pc[h] = "pm_check"
    /\ requests' = IF is_valid_message(msg[h].content, cens[h])
                   THEN {} ELSE {Delete(msg[h])}
    /\ Return(h)
    /\ UNCHANGED <<config, cfgLock, dataLock, censor, file, envSet, log, acked,
                   published, events>>
    /\ UNCHANGED <<cmdVars, modVars, storyVars>>

---------------------------------------------------------------------------
(* parse_command applied to texts assembled from known pieces (SpecCmd)    *)

\* first tokens, with whether they begin with "one-word"
FirstTokens == {
    [tok |-> <<"o","n","e","-","w","o","r","d">>, prefixed |-> TRUE],
    [tok |-> <<"o","n","e","-","w","o","r","d","x">>, prefixed |-> TRUE],
    [tok |-> <<"O","n","e","-","w","o","r","d">>, prefixed |-> FALSE],
    [tok |-> <<"o","n","e","-","w","o","r">>, prefixed |-> FALSE],
    [tok |-> <<"h","e","l","l","o">>, prefixed |-> FALSE] }

\* second tokens, with the sub-command each spells when case is ignored
Keywords == {
    [tok |-> <<"b","a","n">>, kind |-> "ban"],
    [tok |-> <<"B","A","N">>, kind |-> "ban"],
    [tok |-> <<"B","a","n">>, kind |-> "ban"],
    [tok |-> <<"b","a","n","s">>, kind |-> "other"],
    [tok |-> <<"u","n","b","a","n">>, kind |-> "unban"],
    [tok |-> <<"U","n","B","a","n">>, kind |-> "unban"],
    [tok |-> <<"u","n","b","a","n","x">>, kind |-> "other"],
    [tok |-> <<"s","e","t","-","c","h","a","n","n","e","l">>, kind |-> "set-channel"],
    [tok |-> <<"S","e","t","-","C","h","a","n","n","e","l">>, kind |-> "set-channel"],
    [tok |-> <<"S","E","T","-","C","H","A","N","N","E","L">>, kind |-> "set-channel"],
    [tok |-> <<"s","e","t","c","h","a","n","n","e","l">>, kind |-> "other"] }

\* third tokens, with the channel each denotes once "<#" and then ">" are
\* removed (valid: an optional "+" and decimal digits, at most u64::MAX)
Args == {
    [tok |-> <<"<","#","1","2","3",">">>, valid |-> TRUE,  id |-> <<"1","2","3">>],
    [tok |-> <<"1","2","3">>, valid |-> TRUE,  id |-> <<"1","2","3">>],
    [tok |-> <<"<","#","1","2">>, valid |-> TRUE,  id |-> <<"1","2">>],
    [tok |-> <<"1","2",">">>, valid |-> TRUE,  id |-> <<"1","2">>],
    [tok |-> <<"1","<","#","2",">","3">>, valid |-> TRUE,  id |-> <<"1","2","3">>],
    [tok |-> <<"+","5">>, valid |-> TRUE,  id |-> <<"5">>],
    [tok |-> <<"0","0","7">>, valid |-> TRUE,  id |-> <<"7">>],
    [tok |-> <<"0">>, valid |-> TRUE,  id |-> <<"0">>],
    [tok |-> <<"1","8","4","4","6","7","4","4","0","7","3","7","0","9","5","5","1","6","1","5">>, valid |-> TRUE,
     id |-> <<"1","8","4","4","6","7","4","4","0","7","3","7","0","9","5","5","1","6","1","5">>],
    [tok |-> <<"1","8","4","4","6","7","4","4","0","7","3","7","0","9","5","5","1","6","1","6">>, valid |-> FALSE, id |-> <<>>],
    [tok |-> <<"a","b","c">>, valid |-> FALSE, id |-> <<>>],
    [tok |-> <<"S","i","l","l","y">>, valid |-> FALSE, id |-> <<>>],
    [tok |-> <<"<","#",">">>, valid |-> FALSE, id |-> <<>>],
    [tok |-> <<"-","1">>, valid |-> FALSE, id |-> <<>>],
    [tok |-> <<"+">>, valid |-> FALSE, id |-> <<>>],
    [tok |-> <<"<",">","#","5">>, valid |-> FALSE, id |-> <<>>] }

ExtraToken == <<"e","x","t","r","a">>

Leads  == { <<>>, <<" ">> }
Seps   == { <<" ">>, <<" ", " ">>, <<"\t">> }
Trails == { <<>>, <<" ">> }

\* lead, then the tokens separated by sep, then trail
RECURSIVE JoinTokens(_, _)
JoinTokens(toks, sep) ==
    IF toks = <<>> THEN <<>>
    ELSE IF Len(toks) = 1 THEN toks[1]
    ELSE toks[1] \o sep \o JoinTokens(Tail(toks), sep)

Assemble(lead, toks, sep, trail) == lead \o JoinTokens(toks, sep) \o trail

CmdInput(lead, first, n, kw, arg, sep, trail) ==
    [lead |-> lead, first |-> first, n |-> n, kw |-> kw, arg |-> arg,
     content |-> Assemble(lead,
                          SubSeq(<<first.tok, kw.tok, arg.tok, ExtraToken>>, 1, n),
                          sep, trail)]

Pending == [tag |-> "Pending", cmd |-> NoCommand, err |-> ""]

\* the pieces used where a text has no second or third token
NoKeyword == CHOOSE k \in Keywords : k.tok = KwBan
NoArg     == CHOOSE a \in Args : a.tok = <<"0">>
NoFirst   == CHOOSE f \in FirstTokens : f.tok = <<"h","e","l","l","o">>

CmdIdle ==
    /\ cmdIn = CmdInput(<<>>, NoFirst, 1, NoKeyword, NoArg, <<" ">>, <<>>)
    /\ cmdOut = None

InitCmd ==
    /\ \E lead \in Leads, first \in FirstTokens, n \in {1, 2, 3, 4},
          kw \in Keywords, arg \in Args, sep \in Seps, trail \in Trails :
          \* pieces that are not part of the text are fixed
          /\ n < 2 => kw = NoKeyword
          /\ n < 3 => arg = NoArg
          /\ n < 2 => sep = <<" ">>
          /\ cmdIn = CmdInput(lead, first, n, kw, arg, sep, trail)
    /\ cmdOut = Pending

CmdParse ==
    /\ cmdOut = Pending
    /\ cmdOut' = parse_command(cmdIn)
    /\ UNCHANGED <<coreVars, cmdIn, modVars, storyVars>>

---------------------------------------------------------------------------
(* is_valid_message applied to texts assembled from known pieces (SpecMod) *)

\* tokens, with whether each is longer than 2
Words == {
    [tok |-> <<"a">>, long |-> FALSE],
    [tok |-> <<"t","o">>, long |-> FALSE],
    [tok |-> <<"t","h","e">>, long |-> TRUE],
    [tok |-> <<"a","l","p","h","a">>, long |-> TRUE],
    [tok |-> <<"f","o","o">>, long |-> TRUE],
    [tok |-> <<"F","o","o">>, long |-> TRUE],
    [tok |-> <<"b","a","r">>, long |-> TRUE] }

\* the custom banned lists tried
BannedSets == { {}, {<<"f","o","o">>}, {<<"F","o","o">>}, {<<"b","a","r">>} }

ModInput(lead, toks, sep, banned) ==
    [toks |-> toks, banned |-> banned,
     text |-> Assemble(lead, [i \in DOMAIN toks |-> toks[i].tok], sep, <<>>),
     rules |-> BuildCensor(Config(Chan0, banned))]

ModIdle ==
    /\ modIn = ModInput(<<>>, <<>>, <<" ">>, {})
    /\ modOut = [done |-> TRUE, valid |-> TRUE]

InitMod ==
    /\ \E lead \in Leads, sep \in Seps, banned \in BannedSets,
          toks \in {<<>>} \cup {<<a>> : a \in Words}
                   \cup {<<a, b>> : a \in Words, b \in Words}
                   \cup {<<a, b, c>> : a \in Words, b \in Words, c \in Words} :
          /\ Len(toks) < 2 => sep = <<" ">>
          /\ modIn = ModInput(lead, toks, sep, banned)
    /\ modOut = [done |-> FALSE, valid |-> TRUE]

ModEvaluate ==
    /\ ~modOut.done
    /\ modOut' = [done |-> TRUE, valid |-> is_valid_message(modIn.text, modIn.rules)]
    /\ UNCHANGED <<coreVars, cmdVars, modIn, storyVars>>

---------------------------------------------------------------------------
(* generate_story and send_story (main.rs 99-156), applied to channel     *)
(* histories assembled from known messages (SpecStory).  A history is the *)
(* channel's messages before the trigger, newest first, as the gateway    *)
(* returns them; a text's length is its number of elements, as str::len   *)
(* counts bytes.                                                          *)

FetchLimit  == 250      \* r.before(msg.id).limit(250)
StoryBudget == 4096     \* if char_count > 4096

MaxHistory == 3         \* messages of an assembled history

TitleFirst     == "Story so far"
TitleContinued == "continued"

\* a text of n equal bytes
Repeat(c, n) == [i \in 1..n |-> c]

\* a message of the history: author.bot and content
HistoryMessage(bot, text) == [bot |-> bot, content |-> text]

\* the messages histories are assembled from
Kinds == {
    HistoryMessage(FALSE, <<"a">>),
    HistoryMessage(FALSE, <<"b","c">>),
    HistoryMessage(FALSE, Repeat("p", 2047)),
    HistoryMessage(FALSE, Repeat("q", 2048)),
    HistoryMessage(FALSE, Repeat("r", 4095)),
    HistoryMessage(FALSE, Repeat("s", 4097)),
    HistoryMessage(FALSE, TextDot),
    HistoryMessage(TRUE,  <<"z">>),
    HistoryMessage(TRUE,  Repeat("y", 2048)),
    HistoryMessage(TRUE,  TextDot) }

\* a busy channel: 249 one-letter messages, newest first
Crowd == [i \in 1..(FetchLimit - 1) |-> HistoryMessage(FALSE, <<"a">>)]

\* what lies beyond the crowd
CrowdTails == {
    <<HistoryMessage(FALSE, <<"b","c">>), HistoryMessage(FALSE, <<"b","c">>)>>,
    <<HistoryMessage(FALSE, <<"b","c">>), HistoryMessage(FALSE, TextDot)>>,
    <<HistoryMessage(FALSE, TextDot), HistoryMessage(FALSE, <<"b","c">>)>>,
    <<HistoryMessage(TRUE, <<"z">>), HistoryMessage(FALSE, <<"b","c">>)>> }

Histories ==
    UNION { [1..n -> Kinds] : n \in 0..MaxHistory }
    \cup { Crowd \o t : t \in CrowdTails }

\* channel_id.messages(|r| r.before(msg.id).limit(250)): Err, or Ok with the
\* newest `limit` messages before the trigger
messages(channel, limit, ok) ==
    [ok |-> ok,
     list |-> IF ok
              THEN SubSeq(channel, 1, IF Len(channel) < limit THEN Len(channel) ELSE limit)
              ELSE <<>>]

\* the chunk left in collection order, newest first
story_unreversed(story) == story

\* story.reverse()
story_reverse(story) == [i \in DOMAIN story |-> story[Len(story) + 1 - i]]

\* story.join(" ") of story[lo..hi], halving the range
RECURSIVE JoinRange(_, _, _)
JoinRange(story, lo, hi) ==
    IF lo > hi THEN <<>>
    ELSE IF lo = hi THEN story[lo]
    ELSE LET mid == (lo + hi) \div 2
         IN  JoinRange(story, lo, mid) \o <<" ">> \o JoinRange(story, mid + 1, hi)

\* story.join(" ")
story_join(story) == JoinRange(story, 1, Len(story))

\* the embed sent; parts is the slice the description was joined from
Block(title, parts) ==
    [title |-> title, description |-> story_join(parts), parts |-> parts]

\* send_story: nothing for an empty chunk, else one embed appended to those sent
send_story(sent, story, title) ==
    IF story = <<>> THEN sent
    ELSE Append(sent, Block(title, story_reverse(story)))

\* generate_story's locals, the embeds sent so far, and whether the loop
\* has been left by break
StoryLocals ==
    [char_count |-> 0, title |-> TitleFirst, story |-> <<>>, sent |-> <<>>,
     broken |-> FALSE]

\* a loop that never stops at "."
is_terminator_never(m) == FALSE

\* if "." == m.content { break; }
is_terminator(m) == m.content = TextDot

\* the overflow branch forgetting the message at hand
StoryOverflowDropping(st, m) ==
    [st EXCEPT !.char_count = Len(m.content),
               !.title = TitleContinued,
               !.story = <<>>,
               !.sent = send_story(st.sent, st.story, st.title)]

\* the overflow branch (122-127): send the chunk, restart it with m
StoryOverflow(st, m) ==
    [st EXCEPT !.char_count = Len(m.content),
               !.title = TitleContinued,
               !.story = <<m.content>>,
               !.sent = send_story(st.sent, st.story, st.title)]

\* the loop body past the break and the bot filter (120-130)
StoryCount(st, m) ==
    LET counted == st.char_count + Len(m.content) + 1
    IN  IF counted > StoryBudget
        THEN StoryOverflow([st EXCEPT !.char_count = counted], m)
        ELSE [st EXCEPT !.char_count = counted, !.story = Append(@, m.content)]

\* the loop body (111-131) for one message
StoryVisit(st, m) ==
    IF st.broken THEN st
    ELSE IF is_terminator(m) THEN [st EXCEPT !.broken = TRUE]
    ELSE IF m.bot THEN st
    ELSE StoryCount(st, m)

\* for m in messages.iter() { .. } over list[lo..hi] in order, halving the range
RECURSIVE StoryLoop(_, _, _, _)
StoryLoop(list, lo, hi, st) ==
    IF lo > hi THEN st
    ELSE IF lo = hi THEN StoryVisit(st, list[lo])
    ELSE LET mid  == (lo + hi) \div 2
             half == StoryLoop(list, lo, mid, st)
         IN  IF half.broken THEN half ELSE StoryLoop(list, mid + 1, hi, half)

\* generate_story: the embeds sent, in order
generate_story(req) ==
    IF req.ok
    THEN LET st == StoryLoop(req.list, 1, Len(req.list), StoryLocals)
         IN  send_story(st.sent, st.story, st.title)
    ELSE <<>>

StoryIdle ==
    /\ storyIn = [channel |-> <<>>, req |-> messages(<<>>, FetchLimit, FALSE)]
    /\ storyOut = [done |-> TRUE, sent |-> <<>>]

InitStory ==
    /\ \E channel \in Histories, ok \in BOOLEAN :
          storyIn = [channel |-> channel, req |-> messages(channel, FetchLimit, ok)]
    /\ storyOut = [done |-> FALSE, sent |-> <<>>]

StoryRun ==
    /\ ~storyOut.done
    /\ storyOut' = [done |-> TRUE, sent |-> generate_story(storyIn.req)]
    /\ UNCHANGED <<coreVars, cmdVars, modVars, storyIn>>

\* the shared state at rest, for the specifications of the pure functions
CoreIdle == InitCore /\ ~envSet

Init == InitCore /\ CmdIdle /\ ModIdle /\ StoryIdle

Next ==
    \E h \in Handlers :
        \/ Receive(h)
        \/ ScGet(h) \/ ScWrite(h) \/ ScData(h) \/ ScSave(h) \/ ScReply(h)
        \/ PmGet(h) \/ PmRlock(h) \/ PmRead(h) \/ PmCmp(h) \/ PmLookup(h)
        \/ PmCheck(h)

Spec == Init /\ [][Next]_vars

\* the steps of one handler task once it has taken an event
HandlerStep(h) ==
    \/ ScGet(h) \/ ScWrite(h) \/ ScData(h) \/ ScSave(h) \/ ScReply(h)
    \/ PmGet(h) \/ PmRlock(h) \/ PmRead(h) \/ PmCmp(h) \/ PmLookup(h)
    \/ PmCheck(h)

\* the runtime polls every task that can make progress; gateway and file
\* calls return
FairSpec == Spec /\ \A h \in Handlers : WF_vars(HandlerStep(h))

InitC == CoreIdle /\ InitCmd /\ ModIdle /\ StoryIdle
SpecCmd == InitC /\ [][CmdParse]_vars

InitM == CoreIdle /\ CmdIdle /\ InitMod /\ StoryIdle
SpecMod == InitM /\ [][ModEvaluate]_vars

InitS == CoreIdle /\ CmdIdle /\ ModIdle /\ InitStory
SpecStory == InitS /\ [][StoryRun]_vars

---------------------------------------------------------------------------
(* Claims about the pure functions                                         *)

\* what the command grammar assigns to a text assembled from known pieces
ExpectedCommand(in) ==
    IF ~(in.lead = <<>> /\ in.first.prefixed) THEN None
    ELSE IF in.n < 3 THEN SomeErr(UsageError)
    ELSE IF in.kw.kind = "ban" THEN SomeOk(BanWord(in.arg.tok))
    ELSE IF in.kw.kind = "unban" THEN SomeOk(UnbanWord(in.arg.tok))
    ELSE IF in.kw.kind = "set-channel"
         THEN IF in.arg.valid THEN SomeOk(SetChannel(in.arg.id))
              ELSE SomeErr(InvalidChannel)
    ELSE SomeErr(InvalidCommand)

\* C10: parse_command classifies every text: None iff the text does not begin
\* with "one-word"; else the usage error if it has fewer than 3 tokens; else,
\* by the second token with case ignored, BanWord / UnbanWord of the third
\* token verbatim, SetChannel(n) when the third token without "<#" and ">"
\* is a decimal numeral n within u64 and "Invalid channel" when it is not,
\* and "Invalid command" for any other keyword.
ParseCommandClassifies ==
    cmdOut # Pending => cmdOut = ExpectedCommand(cmdIn)

\* a decorated mention after an upper-case keyword has been parsed
ParseCommandWitness ==
    /\ cmdIn.n = 4
    /\ cmdIn.kw.tok = <<"S","E","T","-","C","H","A","N","N","E","L">>
    /\ cmdIn.arg.tok = <<"<","#","1","2","3",">">>
    /\ cmdOut = SomeOk(SetChannel(<<"1","2","3">>))

\* the moderation policy's length rules on the known tokens
LengthRulesReject(in) ==
    \/ Len(in.toks) > 2
    \/ Len(in.toks) = 2 /\ in.toks[1].long /\ in.toks[2].long

\* some banned word occurs in the text, letter case ignored
MentionsBanned(in) ==
    \E w \in in.banned : Contains(to_lowercase(in.text), to_lowercase(w))

\* C8: is_valid_message rejects iff the text has more than 2 tokens, or exactly
\* 2 tokens both longer than 2, or the banned-word filter matches it; a RuleSet
\* built from bannedWords = {w} rejects the text exactly w, and a text that
\* passes the length rules and contains no banned word is allowed.
ModeratorVerdict ==
    modOut.done =>
        /\ ~modOut.valid <=>
               (LengthRulesReject(modIn) \/ Censor_check(modIn.rules, modIn.text))
        /\ \A w \in modIn.banned :
               (modIn.banned = {w} /\ modIn.text = w) => ~modOut.valid
        /\ (~LengthRulesReject(modIn) /\ ~MentionsBanned(modIn)) => modOut.valid

---------------------------------------------------------------------------
(* Claims about the handlers and the shared state                          *)

InSetConfig(h)  == pc[h] \in {"sc_get", "sc_write", "sc_data", "sc_save", "sc_reply"}
InSection(h)    == pc[h] \in {"sc_data", "sc_save"}
HoldsRead(h)    == pc[h] = "pm_read"

\* log[i] is a SetChannel / BanWord / UnbanWord whose effect on a value taken
\* at position upto of the history is c / w present / w absent, unless a
\* later update up to that position changed the same thing again
ChannelVisible(i, ch, upto) ==
    log[i].cmd.op = "SetChannel" =>
        \/ ch = log[i].cmd.arg
        \/ \E j \in (i + 1)..upto : log[j].cmd.op = "SetChannel"

WordsVisible(i, words, upto) ==
    /\ log[i].cmd.op = "BanWord" =>
        \/ log[i].cmd.arg \in words
        \/ \E j \in (i + 1)..upto : log[j].cmd = UnbanWord(log[i].cmd.arg)
    /\ log[i].cmd.op = "UnbanWord" =>
        \/ log[i].cmd.arg \notin words
        \/ \E j \in (i + 1)..upto : log[j].cmd = BanWord(log[i].cmd.arg)

\* C1: read-after-write.  A handler's read of channel_id, and its lookup of
\* the Censor, that completes once set_config has returned for an update
\* observes that update: the channel set, the word banned or unbanned, unless
\* a later update has already replaced it.
ReadAfterWrite ==
    [][\A h \in Handlers :
        /\ (pc[h] = "pm_read" /\ pc'[h] = "pm_cmp") =>
               \A i \in acked : ChannelVisible(i, chan'[h], Len(log))
        /\ (pc[h] = "pm_lookup" /\ pc'[h] = "pm_check") =>
               \A i \in acked : WordsVisible(i, cens'[h].custom, published)]_vars

\* a handler holds the Censor it looked up after a ban of "foo" was acknowledged
ReadAfterWriteWitness ==
    \E h \in Handlers :
        /\ pc[h] = "pm_check"
        /\ WordFoo \in cens[h].custom
        /\ \E i \in acked : log[i].cmd = BanWord(WordFoo)

\* the word sets Config has held: at startup and after each update
WordSetsHeld == { log[k].cfg.banned_words : k \in DOMAIN log }

\* C2: no torn RuleSet.  Every Censor a handler evaluates a message against,
\* and the one stored in the TypeMap, is the Censor of the complete word set
\* Config held at startup or right after some update.
NoTornRuleSet ==
    /\ \E ws \in WordSetsHeld : censor = CensorCustom(ws)
    /\ \A h \in Handlers :
           pc[h] = "pm_check" => \E ws \in WordSetsHeld : cens[h] = CensorCustom(ws)

\* a handler evaluates against a Censor while another set_config is between
\* its update and its publication
NoTornRuleSetWitness ==
    \E h \in Handlers, w \in Handlers :
        /\ pc[h] = "pm_check"
        /\ pc[w] = "sc_data"
        /\ cens[h].custom # config.banned_words

\* C3: within one parse_message the channel_id compared against and the
\* Censor evaluated with belong to one version of Config.
ConsistentPair ==
    \A h \in Handlers :
        pc[h] = "pm_check" =>
            \E k \in DOMAIN log :
                /\ log[k].cfg.channel_id = chan[h]
                /\ cens[h] = CensorCustom(log[k].cfg.banned_words)

\* C4: at most one set_config is between acquiring and releasing the Config
\* write lock, and no handler holds the Config read lock meanwhile.
OneMutationInFlight ==
    /\ Cardinality({h \in Handlers : InSection(h)}) <= 1
    /\ (\E w \in Handlers : InSection(w)) => ~(\E h \in Handlers : HoldsRead(h))
    /\ cfgLock.writers = {h \in Handlers : InSection(h)}
    /\ cfgLock.readers = {h \in Handlers : HoldsRead(h)}

\* a writer is inside the section while another writer and a reader wait
OneMutationInFlightWitness ==
    \E w \in Handlers, h \in Handlers :
        pc[w] = "sc_save" /\ pc[h] \in {"sc_write", "pm_rlock"}

\* C5: while a save is in progress a handler's read of channel_id and its
\* lookups in the TypeMap can still complete.
ReadsNotStalledBySave ==
    \A w \in Handlers, h \in Handlers :
        pc[w] = "sc_save" =>
            /\ pc[h] = "pm_get" => ENABLED PmGet(h)
            /\ pc[h] = "pm_rlock" => ENABLED PmRlock(h)
            /\ pc[h] = "pm_lookup" => ENABLED PmLookup(h)

\* C6: a save that fails, or is not attempted because CONFIG_FILE is unset,
\* rolls nothing back: when set_config has returned, Config and the stored
\* Censor still show the update (unless a later update replaced it), and the
\* reply is still "Settings updated".
PersistenceFailureKeepsUpdate ==
    /\ \A h \in Handlers :
           (pc[h] = "sc_reply" /\ seen[h].outcome \in {"failed", "unset"}) =>
               /\ log[seen[h].pos].cmd = cmd[h]
               /\ ChannelVisible(seen[h].pos, config.channel_id, Len(log))
               /\ WordsVisible(seen[h].pos, config.banned_words, Len(log))
               /\ WordsVisible(seen[h].pos, censor.custom, published)
    /\ \A r \in requests :
           (r.kind = "reply" /\ r.save \in {"failed", "unset"}) =>
               r.text = "Settings updated"

\* the acknowledgement of a ban whose save failed
PersistenceFailureWitness ==
    \E r \in requests :
        /\ r.kind = "reply" /\ r.save = "failed" /\ r.text = "Settings updated"
        /\ r.to.content = TextBanFoo
        /\ WordFoo \in config.banned_words /\ WordFoo \in censor.custom
        /\ file.state = "absent"

\* the texts of Inbound that are well-formed commands
WellFormedCommands == {TextBanFoo, TextUnbanFoo, TextSetChan1}

Authorized(m) == ~m.bot /\ m.perm = "admin" /\ m.content \in WellFormedCommands

\* C7: Config, the stored Censor and the file change only in a step of
\* set_config run for a well-formed command of an administrator; only such
\* messages enter set_config or are answered "Settings updated", and a
\* well-formed command of anyone else is answered with the rejection.
OnlyAdminCommandsMutate ==
    /\ [](/\ \A h \in Handlers : InSetConfig(h) => Authorized(msg[h])
          /\ \A r \in requests :
                r.kind = "reply" =>
                    /\ r.text = "Settings updated" => Authorized(r.to)
                    /\ (r.to.content \in WellFormedCommands /\ ~Authorized(r.to))
                           => r.text = RejectReply)
    /\ [][(config' # config \/ censor' # censor \/ file' # file) =>
             \E h \in Handlers :
                 /\ pc[h] \in {"sc_write", "sc_data", "sc_save"}
                 /\ pc'[h] # pc[h]
                 /\ Authorized(msg[h])]_vars

\* an author whose permission lookup failed has been answered with the
\* rejection, the shared state being as at startup
OnlyAdminCommandsWitness ==
    /\ \E r \in requests :
           r.kind = "reply" /\ r.to.perm = "lookup_failed" /\ r.text = RejectReply
    /\ Len(log) = 1
    /\ config = log[1].cfg

\* C9: the stored Censor matches every word of the standard profanity list
\* as well as the custom banned list.
ProfanityFiltered ==
    \A w \in StandardWords : Censor_check(censor, w)

\* C9 as amended: the stored Censor is Censor::Custom of the banned words at
\* the update it was built for, with no standard list: it matches only
\* through a custom banned word, and nothing at all when that list is empty.
CustomOnlyFilter ==
    /\ CensorSet(censor) = log[published].cfg.banned_words
    /\ log[published].cfg.banned_words = {} =>
           \A t \in StandardWords \cup OrdinaryTexts : ~Censor_check(censor, t)

\* the Censor rebuilt by an update that emptied the banned list lets a
\* standard profanity through
CustomOnlyFilterWitness ==
    /\ published > 1
    /\ log[published].cmd = UnbanWord(WordFoo)
    /\ censor = CensorCustom({})
    /\ \A w \in StandardWords : ~Censor_check(censor, w)

---------------------------------------------------------------------------
(* Claims about generate_story                                             *)

\* the history generate_story was given, newest first
Fetched == storyIn.req.list

\* position of the first "." of a history, or one past its end
FirstTerminator(list) ==
    IF \E i \in DOMAIN list : list[i].content = TextDot
    THEN CHOOSE i \in DOMAIN list :
             /\ list[i].content = TextDot
             /\ \A j \in 1..(i - 1) : list[j].content # TextDot
    ELSE Len(list) + 1

NewerThanTerminator(list) == SubSeq(list, 1, FirstTerminator(list) - 1)

NotBot(m) == ~m.bot

\* the texts of the included messages, newest first: not by a bot, newer
\* than the first "."
Included(list) ==
    LET kept == SelectSeq(NewerThanTerminator(list), NotBot)
    IN  [i \in DOMAIN kept |-> kept[i].content]

\* sum of length + 1 over texts[lo..hi]
RECURSIVE Charge(_, _, _)
Charge(texts, lo, hi) ==
    IF lo > hi THEN 0
    ELSE IF lo = hi THEN Len(texts[lo]) + 1
    ELSE Charge(texts, lo, (lo + hi) \div 2) + Charge(texts, (lo + hi) \div 2 + 1, hi)

\* texts[lo..hi], given newest first, written oldest first with one space
\* between neighbours
RECURSIVE OldestFirst(_, _, _)
OldestFirst(texts, lo, hi) ==
    IF lo > hi THEN <<>>
    ELSE IF lo = hi THEN texts[lo]
    ELSE OldestFirst(texts, (lo + hi) \div 2 + 1, hi) \o <<" ">>
         \o OldestFirst(texts, lo, (lo + hi) \div 2)

\* C11: when the included messages of the fetched history have
\* sum(length + 1) <= 4096, generate_story sends exactly one embed, titled
\* "Story so far", whose description is those messages oldest first joined by
\* single spaces, if there is at least one of them, and no embed if there is
\* none.
StoryWithinBudget ==
    storyOut.done =>
        LET inc == Included(Fetched)
        IN  Charge(inc, 1, Len(inc)) <= StoryBudget =>
                IF inc # <<>>
                THEN /\ Len(storyOut.sent) = 1
                     /\ storyOut.sent[1].title = "Story so far"
                     /\ storyOut.sent[1].description = OldestFirst(inc, 1, Len(inc))
                ELSE storyOut.sent = <<>>

\* three messages within the budget came out as one embed, oldest first
StoryWithinBudgetWitness ==
    /\ storyOut.done
    /\ Len(Included(Fetched)) = 3
    /\ Len(storyOut.sent) = 1
    /\ storyOut.sent[1].description = <<"b","c"," ","b","c"," ","a">>

\* C12: generate_story stops at the first "." of the history: what it sends
\* is what it sends for the history cut just before that message, whatever
\* lies at and beyond it, and no embed is built from a "." message.
TerminatorStops ==
    storyOut.done =>
        /\ storyOut.sent =
               generate_story([storyIn.req EXCEPT !.list = NewerThanTerminator(@)])
        /\ \A b \in DOMAIN storyOut.sent :
               \A i \in DOMAIN storyOut.sent[b].parts :
                   storyOut.sent[b].parts[i] # TextDot

\* a "." with a message on either side: only the newer one was sent
TerminatorStopsWitness ==
    /\ storyOut.done
    /\ Len(Fetched) = 3
    /\ FirstTerminator(Fetched) = 2
    /\ ~Fetched[3].bot
    /\ Len(storyOut.sent) = 1
    /\ storyOut.sent[1].parts = <<Fetched[1].content>>

\* C13: the embeds sent for a history equal those sent for the same history
\* with every bot-authored message removed.
BotsHaveNoInfluence ==
    storyOut.done =>
        storyOut.sent =
            generate_story([storyIn.req EXCEPT !.list = SelectSeq(@, NotBot)])

\* C14: every embed's description has at most 4096 bytes.
ChunkWithinBudget ==
    storyOut.done =>
        \A b \in DOMAIN storyOut.sent :
            Len(storyOut.sent[b].description) <= StoryBudget

\* C15: the first embed sent in a run is titled "Story so far" and every
\* later one "continued".
BlockTitles ==
    storyOut.done =>
        \A b \in DOMAIN storyOut.sent :
            storyOut.sent[b].title = IF b = 1 THEN "Story so far" ELSE "continued"

\* the texts the embeds were built from, newest first, in the order sent
RECURSIVE PartsNewestFirst(_)
PartsNewestFirst(blocks) ==
    IF blocks = <<>> THEN <<>>
    ELSE LET parts == Head(blocks).parts
         IN  [i \in DOMAIN parts |-> parts[Len(parts) + 1 - i]]
             \o PartsNewestFirst(Tail(blocks))

\* C16: the embeds sent partition the included messages into contiguous
\* runs: taken in the order sent they hold every included message exactly
\* once, in order, no embed is empty, and each description is its run oldest
\* first joined by single spaces.
BlocksPartitionIncluded ==
    storyOut.done =>
        /\ PartsNewestFirst(storyOut.sent) = Included(Fetched)
        /\ \A b \in DOMAIN storyOut.sent :
               LET run == PartsNewestFirst(<<storyOut.sent[b]>>)
               IN  /\ run # <<>>
                   /\ storyOut.sent[b].description = OldestFirst(run, 1, Len(run))

\* a chunk flushed on overflow, followed by a chunk of two messages that
\* fills the budget exactly
BlocksPartitionWitness ==
    /\ storyOut.done
    /\ Len(storyOut.sent) = 2
    /\ Len(storyOut.sent[1].parts) = 1
    /\ Len(storyOut.sent[2].parts) = 2
    /\ Len(storyOut.sent[2].description) = StoryBudget

---------------------------------------------------------------------------
(* Further claims about the handlers and the shared state                  *)

\* C17: whenever no set_config holds the Config write lock, at startup and
\* after any interleaving of commands, the Censor stored in the TypeMap is
\* the one built from Config's current banned_words.
PublishedTracksBannedWords ==
    cfgLock.writers = {} =>
        /\ ~censor.standard
        /\ censor.custom = config.banned_words

\* at rest after a set-channel, a ban and an unban were applied
PublishedTracksWitness ==
    /\ cfgLock.writers = {}
    /\ Len(log) = 4
    /\ \E i \in 2..4 : log[i].cmd = BanWord(WordFoo)
    /\ log[4].cmd = UnbanWord(WordFoo)
    /\ censor = CensorCustom({})
    /\ \A h \in Handlers : pc[h] = "idle"

Moderating(h) == pc[h] \in {"pm_lookup", "pm_check"}

\* C18: a delete request or a story is only ever caused by a non-bot message
\* whose channel equals the channel_id its handler read from Config; a
\* message in another channel gets past the channel test in no handler.
ChannelScoping ==
    /\ [](\A h \in Handlers : Moderating(h) => msg[h].channel_id = chan[h])
    /\ [][\A r \in requests' :
             r.kind \in {"delete", "story"} =>
                 \E h \in Handlers :
                     /\ pc[h] \in {"pm_cmp", "pm_check"} /\ pc'[h] = "idle"
                     /\ r.to = msg[h]
                     /\ ~r.to.bot
                     /\ r.to.channel_id = chan[h]]_vars

\* after a command moved the target from channel 0 to channel 1, a "." in
\* channel 1 triggered a story
ChannelScopingWitness ==
    /\ log[1].cfg.channel_id = Chan0
    /\ config.channel_id = Chan1
    /\ \E r \in requests : r.kind = "story" /\ r.to.channel_id = Chan1

\* a handler is inside parse_message
InParseMessage(h) ==
    pc[h] \in {"pm_get", "pm_rlock", "pm_read", "pm_cmp", "pm_lookup", "pm_check"}

\* C20: a message reaches parse_message only if it is not a bot's and
\* parse_command returned None for it; a message whose text begins with
\* "one-word" is never deleted and never triggers a story, whatever its
\* channel, token count, banned content, author or parse outcome.
CommandsBypassModeration ==
    /\ \A h \in Handlers :
           InParseMessage(h) =>
               /\ ~msg[h].bot
               /\ parse_command(msg[h]) = None
               /\ ~starts_with(msg[h].content, OneWordPrefix)
    /\ \A r \in requests :
           r.kind \in {"delete", "story"} =>
               ~starts_with(r.to.content, OneWordPrefix)

\* a member's three-token command naming a banned word, posted in the target
\* channel, was answered with the rejection only
CommandsBypassWitness ==
    /\ WordFoo \in censor.custom
    /\ \E r \in requests :
           /\ r.kind = "reply" /\ r.text = RejectReply
           /\ r.to.content = TextBanFoo /\ r.to.perm = "member"
           /\ r.to.channel_id = config.channel_id
    /\ Cardinality(requests) = 1

\* the handlers holding a read guard on the Censor's own RwLock (72-79)
CensorGuards == {h \in Handlers : pc[h] = "pm_check"}

\* handler g can take its next step even if every lock makes readers queue
\* behind a writer that is already waiting
Progresses(g) ==
    /\ ENABLED HandlerStep(g)
    /\ pc[g] \in {"sc_get", "pm_get", "pm_lookup"} =>
           ~(\E w \in Handlers : pc[w] = "sc_data")
    /\ pc[g] = "pm_rlock" => ~(\E w \in Handlers : pc[w] = "sc_write")

\* the guards held are exactly those of the handlers at the positions
\* where the code holds them
GuardsHeldByHandlers ==
    /\ cfgLock.writers = {h \in Handlers : pc[h] \in {"sc_data", "sc_save"}}
    /\ cfgLock.readers = {h \in Handlers : pc[h] = "pm_read"}
    /\ dataLock.writers = {h \in Handlers : pc[h] = "sc_save"}
    /\ dataLock.readers = {}

\* every handler has returned and every lock is free
Quiescent ==
    /\ \A h \in Handlers : pc[h] = "idle"
    /\ cfgLock = Unlocked /\ dataLock = Unlocked /\ CensorGuards = {}

\* C19: deadlock freedom.  In no reachable state are the handlers in flight
\* all blocked, and every guard on the data-map lock, the Config lock and the
\* Censor's lock is held by a handler in flight.  Every runnable handler being
\* scheduled and external calls returning, every handler invocation finishes
\* and every lock is released: the events of a run being finitely many, the
\* run ends with all handlers returned and all locks free.
DeadlockFreedom ==
    /\ [](/\ (\E h \in Handlers : pc[h] # "idle") =>
                 \E g \in Handlers : Progresses(g)
          /\ GuardsHeldByHandlers)
    /\ <>[]Quiescent

\* a set_config holds both write guards for its save while another handler
\* is blocked on the data-map lock
DeadlockFreedomWitness ==
    \E w \in Handlers, h \in Handlers :
        /\ pc[w] = "sc_save"
        /\ dataLock.writers = {w} /\ cfgLock.writers = {w}
        /\ pc[h] \in {"pm_get", "pm_lookup", "sc_get"}
        /\ ~ENABLED HandlerStep(h)

=============================================================================
